---- MODULE Spec2Model ----
(***************************************************************************)
(* State-machine model of the OAuth login flow of app/api/endpoints/auth.py *)
(* (google_callback, get_current_user) together with the collaborators it  *)
(* calls: the IdP adapter, the user table and the token codec.              *)
(*                                                                         *)
(* Text is modelled as a sequence of items.  An item is either a literal   *)
(* run of characters without a space (Lit), one space (Sp), or a signed    *)
(* token (Jwt), which never contains a space.  Adjacent items are          *)
(* concatenated text.                                                      *)
(***************************************************************************)
EXTENDS Integers, Sequences, FiniteSets, TLC

\* ------------------------------------------------------------- bounds
\* Number of /auth/callback/google requests in flight.
NumCallbacks == 2
\* Last instant of the clock.
MaxTime == 1

\* Number of logins that precede the /auth/me requests of SpecMe.
MeLogins == 1

Reqs == 1..NumCallbacks
MeReqs == 1..MeLogins

\* ------------------------------------------------------- python values
None == "None"
Truthy(v) == v # None /\ v # ""
\* x or y
Or(x, y) == IF Truthy(x) THEN x ELSE y
\* d.get(k, default) on a dict modelled as a function
Get(d, k, default) == IF k \in DOMAIN d THEN d[k] ELSE default
\* str(uuid)
StrId(id) == ToString(id)

\* ------------------------------------------------------------- text
Lit(s) == [kind |-> "lit", text |-> s, sub |-> "", exp |-> 0, key |-> ""]
Sp == [kind |-> "sp", text |-> " ", sub |-> "", exp |-> 0, key |-> ""]
Jwt(s, e, k) == [kind |-> "jwt", text |-> "", sub |-> s, exp |-> e, key |-> k]

\* s.startswith(p)
StartsWith(s, p) == Len(s) >= Len(p) /\ SubSeq(s, 1, Len(p)) = p

\* s.split(' '): the parts between single spaces, empty parts kept
RECURSIVE SplitFrom(_, _, _)
SplitFrom(s, i, cur) ==
    IF i > Len(s) THEN <<cur>>
    ELSE IF s[i] = Sp THEN <<cur>> \o SplitFrom(s, i + 1, <<>>)
    ELSE SplitFrom(s, i + 1, Append(cur, s[i]))
Split(s) == SplitFrom(s, 1, <<>>)

\* ------------------------------------------------------ configuration
JWT_SECRET == "server-secret"
DEFAULT_FRONTEND == "http://localhost:7010"
\* validity window of an access token, in clock instants
TokenWindow == 1

VARIABLES
    frontend_url,   \* settings.FRONTEND_URL
    users,          \* the user table
    now,            \* the wall clock
    cb,             \* per callback request: position and locals of google_callback
    writers,        \* the callback requests that have inserted a row
    me              \* the last /auth/me exchange

vars == <<frontend_url, users, now, cb, writers, me>>

\* ------------------------------------------------------------ token codec
\* auth_service.create_access_token(data={"sub": s}) at instant t
create_access_token(s, t) == Jwt(s, t + TokenWindow, JWT_SECRET)

\* auth_service.verify_token(token) at instant t: the subject, or None
verify_token(tok, t) ==
    IF Len(tok) = 1 /\ tok[1].kind = "jwt" /\ tok[1].key = JWT_SECRET /\ t < tok[1].exp
    THEN tok[1].sub
    ELSE None

\* ------------------------------------------------------------ user table
NoRow == [id |-> 0, email |-> "", name |-> "", picture |-> "", provider |-> "",
          created_at |-> 0]

\* user_repo.find_by_email
find_by_email(table, email) ==
    IF \E u \in table : u.email = email
    THEN CHOOSE u \in table : u.email = email
    ELSE NoRow

\* user_repo.find_by_id: the id arrives as text
find_by_id(table, user_id) ==
    IF \E u \in table : StrId(u.id) = user_id
    THEN CHOOSE u \in table : StrId(u.id) = user_id
    ELSE NoRow

\* the generated identifier of a new row
NewId(table) == Cardinality(table) + 1

NewRow(table, a, t) ==
    [id |-> NewId(table), email |-> a.email, name |-> a.name, picture |-> a.picture,
     provider |-> a.provider, created_at |-> t]

\* a table without the uniqueness constraint
UniqueViolationNever(table, email) == FALSE

\* the storage layer's uniqueness constraint on email
UniqueViolation(table, email) == \E u \in table : u.email = email

\* ------------------------------------------------------------ exceptions
Exc(cls, msg) == [cls |-> cls, msg |-> msg]
NoExc == Exc("", "")
\* HTTPException(status_code=400, detail="Failed to get access token")
NoAccessToken == Exc("HTTPException", "400: Failed to get access token")
\* user_info['email'] on a profile without that key
KeyErrorEmail == Exc("KeyError", "'email'")
\* str(e)
StrExc(e) == e.msg

\* ------------------------------------------------------------ responses
Redirect(url) == [status |-> 307, url |-> url]
ServerError == [status |-> 500, url |-> <<>>]
NoResp == [status |-> 0, url |-> <<>>]

\* lines 81-83 without the fallback of line 81
SuccessRedirectNoDefault(jwt_token) ==
    Redirect(<<Lit(frontend_url), Lit("/auth/callback?token="), jwt_token>>)

\* lines 81-83
SuccessRedirect(jwt_token) ==
    Redirect(<<Lit(Or(frontend_url, DEFAULT_FRONTEND)), Lit("/auth/callback?token="),
               jwt_token>>)

\* lines 85-89, a handler that lets everything but HTTPException escape
ExceptHandlerNarrow(e) ==
    IF e.cls = "HTTPException"
    THEN Redirect(<<Lit(Or(frontend_url, DEFAULT_FRONTEND)), Lit("/login?error="),
                    Lit(StrExc(e))>>)
    ELSE ServerError

\* lines 85-89: except Exception as e
ExceptHandler(e) ==
    Redirect(<<Lit(Or(frontend_url, DEFAULT_FRONTEND)), Lit("/login?error="),
               Lit(StrExc(e))>>)

\* line 78, a subject taken from the wrong column
TokenSubjectEmail(user) == user.email

\* line 78: {"sub": str(user['id'])}
TokenSubject(user) == StrId(user.id)

\* ------------------------------------------------- google_callback state
NoInfo == [none |-> TRUE]
NoArgs == [email |-> "", name |-> "", picture |-> "", provider |-> ""]

CbInit ==
    [pc |-> "exchange", access_token |-> None,
     user_info |-> NoInfo, args |-> NoArgs, missed |-> FALSE, user |-> NoRow,
     exc |-> NoExc, at |-> "", t_done |-> 0, resp |-> NoResp]

\* what the IdP adapter can answer to the code-for-token exchange
TokenResponses ==
    { [access_token |-> "ya29.tok", token_type |-> "Bearer"],
      [access_token |-> "", token_type |-> "Bearer"],
      [token_type |-> "Bearer"] }
ExchangeErrors == { Exc("OAuthError", "mismatching_state"),
                    Exc("OAuthError", "invalid_grant") }
\* what the IdP's profile endpoint can answer
Profiles ==
    { [email |-> "a@x.io", name |-> "Ann", picture |-> "p.png"],
      [email |-> "b@x.io"],
      [name |-> "Eve"] }
ProfileErrors == { Exc("HTTPStatusError", "401 Unauthorized") }
DbErrors == { Exc("PostgresError", "connection is closed") }

\* the try block left by an exception e raised while at stage `at`
Fail(r, e, at) ==
    cb' = [cb EXCEPT ![r].pc = "done", ![r].exc = e, ![r].at = at,
                     ![r].resp = ExceptHandler(e)]

\* lines 77-83 once the upsert has returned `user`
Finish(r, user, missed) ==
    cb' = [cb EXCEPT ![r].pc = "done", ![r].user = user, ![r].missed = missed,
                     ![r].t_done = now,
                     ![r].resp = SuccessRedirect(
                         create_access_token(TokenSubject(user), now))]

\* ----------------------------------------------- get_current_user state
\* request.headers.get('Authorization') of a request without that header
NoHeader == <<[kind |-> "none", text |-> "", sub |-> "", exp |-> 0, key |-> ""]>>
BearerPrefix == <<Lit("Bearer"), Sp>>

\* the body of a response that carries no user
NoBody == [id |-> "", email |-> "", name |-> "", picture |-> "", provider |-> "",
           created_at |-> 0]
NoExchange ==
    [headers |-> [none |-> TRUE], at |-> 0, status |-> 0, sub |-> None,
     looked_up |-> FALSE, body |-> NoBody]

\* lines 135-138: UserResponse(**user_dict) with the id as text
UserResponse(user) ==
    [id |-> StrId(user.id), email |-> user.email, name |-> user.name,
     picture |-> user.picture, provider |-> user.provider,
     created_at |-> user.created_at]

\* the tokens handed out so far by successful callbacks
IssuedTokens ==
    { cb[r].resp.url[3] : r \in { q \in Reqs : cb[q].pc = "done" /\ cb[q].user # NoRow } }

\* a well-signed token whose subject has no row
AbsentToken == Jwt(StrId(NewId(users)), now + TokenWindow, JWT_SECRET)
\* token t signed with another key
Resign(t) == Jwt(t.sub, t.exp, "other-secret")

\* the Authorization headers a client may send
MeHeaders ==
    { [none |-> TRUE],
      [Authorization |-> <<>>],
      [Authorization |-> <<Lit("Bearer")>>],
      [Authorization |-> BearerPrefix],
      [Authorization |-> BearerPrefix \o <<Lit("garbage")>>],
      [Authorization |-> BearerPrefix \o <<AbsentToken>>],
      [Authorization |-> BearerPrefix \o <<AbsentToken, Sp, Lit("x")>>],
      [Authorization |-> <<Lit("bearer"), Sp, AbsentToken>>] }
    \cup { [Authorization |-> BearerPrefix \o <<t>>] : t \in IssuedTokens }
    \cup { [Authorization |-> BearerPrefix \o <<Resign(t)>>] : t \in IssuedTokens }
    \cup { [Authorization |-> <<Lit("Bearer"), Sp, Sp, t>>] : t \in IssuedTokens }
    \cup { [Authorization |-> <<Lit("Basic"), Sp, t>>] : t \in IssuedTokens }

Init ==
    /\ frontend_url \in {None, "https://app.example"}
    /\ users = {}
    /\ now = 0
    /\ cb = [r \in Reqs |-> CbInit]
    /\ writers = {}
    /\ me = NoExchange

\* line 62, a check that lets every token response through
AccessTokenOkAlways(access_token) == TRUE

\* line 62: if not access_token
AccessTokenOk(access_token) == Truthy(access_token)

\* lines 59-63
AuthorizeAccessToken(r) ==
    /\ cb[r].pc = "exchange"
    /\ \/ \E e \in ExchangeErrors : Fail(r, e, "exchange")
       \/ \E token \in TokenResponses :
            LET access_token == Get(token, "access_token", None) IN
            IF AccessTokenOk(access_token)
            THEN cb' = [cb EXCEPT ![r].pc = "profile", ![r].access_token = access_token]
            ELSE cb' = [cb EXCEPT ![r].pc = "done", ![r].access_token = access_token,
                                  ![r].exc = NoAccessToken, ![r].at = "exchange",
                                  ![r].resp = ExceptHandler(NoAccessToken)]
    /\ UNCHANGED <<frontend_url, users, now, writers, me>>

\* lines 69-75: the keyword arguments of login_or_register_oauth_user
UpsertArgs(user_info) ==
    [email |-> user_info["email"], name |-> Get(user_info, "name", ""),
     picture |-> Get(user_info, "picture", ""), provider |-> "google"]

\* lines 66-75, up to the first suspension inside the upsert
GetGoogleUserInfo(r) ==
    /\ cb[r].pc = "profile"
    /\ \/ \E e \in ProfileErrors : Fail(r, e, "profile")
       \/ \E user_info \in Profiles :
            IF "email" \in DOMAIN user_info
            THEN cb' = [cb EXCEPT ![r].pc = "find", ![r].user_info = user_info,
                                  ![r].args = UpsertArgs(user_info)]
            ELSE cb' = [cb EXCEPT ![r].pc = "done", ![r].user_info = user_info,
                                  ![r].exc = KeyErrorEmail, ![r].at = "profile",
                                  ![r].resp = ExceptHandler(KeyErrorEmail)]
    /\ UNCHANGED <<frontend_url, users, now, writers, me>>

\* login_or_register_oauth_user: look up by email
FindByEmail(r) ==
    /\ cb[r].pc = "find"
    /\ \/ \E e \in DbErrors : Fail(r, e, "upsert")
       \/ LET user == find_by_email(users, cb[r].args.email) IN
          IF user # NoRow
          THEN Finish(r, user, FALSE)
          ELSE cb' = [cb EXCEPT ![r].pc = "create", ![r].missed = TRUE]
    /\ UNCHANGED <<frontend_url, users, now, writers, me>>

\* login_or_register_oauth_user: insert if absent; on conflict retry as lookup
CreateUser(r) ==
    /\ cb[r].pc = "create"
    /\ \/ /\ \E e \in DbErrors : Fail(r, e, "upsert")
          /\ UNCHANGED <<users, writers>>
       \/ IF UniqueViolation(users, cb[r].args.email)
          THEN /\ Finish(r, find_by_email(users, cb[r].args.email), TRUE)
               /\ UNCHANGED <<users, writers>>
          ELSE /\ users' = users \cup {NewRow(users, cb[r].args, now)}
               /\ writers' = writers \cup {r}
               /\ Finish(r, NewRow(users, cb[r].args, now), TRUE)
    /\ UNCHANGED <<frontend_url, now, me>>

\* lines 116-117, a check of the header's presence only
HeaderOkPresent(auth_header) == auth_header # NoHeader /\ auth_header # <<>>

\* lines 116-117: the header is there and starts with 'Bearer '
HeaderOk(auth_header) ==
    /\ auth_header # NoHeader /\ auth_header # <<>>
    /\ StartsWith(auth_header, BearerPrefix)

\* line 120: auth_header.split(' ')[1]; IndexError when there is no second part
HasBearerToken(auth_header) == Len(Split(auth_header)) >= 2
BearerToken(auth_header) == Split(auth_header)[2]

\* line 124, a check that accepts every verification outcome
UserIdOkAlways(user_id) == TRUE

\* line 124: if not user_id
UserIdOk(user_id) == Truthy(user_id)

\* lines 131-138, answering 200 whether or not a row was found
LookupResponseAlways200(user) ==
    [status |-> 200, body |-> IF user = NoRow THEN NoBody ELSE UserResponse(user)]

\* lines 131-138
LookupResponse(user) ==
    IF user = NoRow
    THEN [status |-> 404, body |-> NoBody]
    ELSE [status |-> 200, body |-> UserResponse(user)]

\* lines 115-138: the whole /auth/me handler
get_current_user(headers) ==
    LET auth_header == Get(headers, "Authorization", NoHeader) IN
    IF ~HeaderOk(auth_header)
    THEN [headers |-> headers, at |-> now, status |-> 401, sub |-> None,
          looked_up |-> FALSE, body |-> NoBody]
    ELSE IF ~HasBearerToken(auth_header)
    THEN [headers |-> headers, at |-> now, status |-> 500, sub |-> None,
          looked_up |-> FALSE, body |-> NoBody]
    ELSE LET user_id == verify_token(BearerToken(auth_header), now) IN
         IF ~UserIdOk(user_id)
         THEN [headers |-> headers, at |-> now, status |-> 401, sub |-> user_id,
               looked_up |-> FALSE, body |-> NoBody]
         ELSE LET res == LookupResponse(find_by_id(users, user_id)) IN
              [headers |-> headers, at |-> now, status |-> res.status, sub |-> user_id,
               looked_up |-> TRUE, body |-> res.body]

GetCurrentUser ==
    /\ \E headers \in MeHeaders : me' = get_current_user(headers)
    /\ UNCHANGED <<frontend_url, users, now, cb, writers>>

Tick ==
    /\ now < MaxTime
    /\ now' = now + 1
    /\ UNCHANGED <<frontend_url, users, cb, writers, me>>

\* the callback requests, served concurrently
Next ==
    \/ \E r \in Reqs : AuthorizeAccessToken(r)
    \/ \E r \in Reqs : GetGoogleUserInfo(r)
    \/ \E r \in Reqs : FindByEmail(r)
    \/ \E r \in Reqs : CreateUser(r)
    \/ Tick

Spec == Init /\ [][Next]_vars

\* logins followed by /auth/me requests
NextMe ==
    \/ \E r \in MeReqs : AuthorizeAccessToken(r)
    \/ \E r \in MeReqs : GetGoogleUserInfo(r)
    \/ \E r \in MeReqs : FindByEmail(r)
    \/ \E r \in MeReqs : CreateUser(r)
    \/ GetCurrentUser
    \/ Tick

SpecMe == Init /\ [][NextMe]_vars

\* ------------------------------------------------------------ properties
Frontend == IF frontend_url \in {None, ""} THEN DEFAULT_FRONTEND ELSE frontend_url
Done(r) == cb[r].pc = "done"
Failed(r) == Done(r) /\ cb[r].exc # NoExc
Succeeded(r) == Done(r) /\ cb[r].exc = NoExc
IsLoginError(resp) ==
    /\ resp.status = 307 /\ Len(resp.url) = 3
    /\ resp.url[1] = Lit(Frontend) /\ resp.url[2] = Lit("/login?error=")
IsAuthenticated(resp) ==
    /\ resp.status = 307 /\ Len(resp.url) = 3
    /\ resp.url[1] = Lit(Frontend) /\ resp.url[2] = Lit("/auth/callback?token=")
    /\ resp.url[3].kind = "jwt"

C2_SuccessIsAuthenticated ==
    \A r \in Reqs :
        /\ Succeeded(r) =>
              /\ IsAuthenticated(cb[r].resp)
              /\ cb[r].resp.url[3] = Jwt(StrId(cb[r].user.id), cb[r].t_done + TokenWindow,
                                         JWT_SECRET)
              /\ cb[r].user \in users
              /\ cb[r].user.email = cb[r].user_info["email"]
        /\ Done(r) => (IsAuthenticated(cb[r].resp) # IsLoginError(cb[r].resp))

C2_Witness ==
    \E r \in Reqs : Succeeded(r) /\ frontend_url = None /\ cb[r].user.email = "b@x.io"

\* C3: two failed callbacks whose exceptions differ only in their message get the
\* same redirect URL.
C3_ErrorIndicatorIsGeneric ==
    \A r, q \in Reqs :
        (Failed(r) /\ Failed(q) /\ cb[r].exc.cls = cb[q].exc.cls /\ cb[r].at = cb[q].at)
            => cb[r].resp.url = cb[q].resp.url

\* C4: callbacks that raced on an email absent from the table leave exactly one row
\* for it, and each of them holds that row.
C4_OneRowUnderRace ==
    \A r \in Reqs :
        (Succeeded(r) /\ cb[r].missed) =>
            LET rows == { u \in users : u.email = cb[r].args.email } IN
            Cardinality(rows) = 1 /\ cb[r].user \in rows

C4_Witness ==
    \E r, q \in Reqs :
        /\ r # q /\ Succeeded(r) /\ Succeeded(q)
        /\ cb[r].missed /\ cb[q].missed /\ cb[r].args.email = cb[q].args.email

\* C5: two upserts with the same email return the same identifier, and the table
\* holds at most one row per email.
C5_UpsertIdempotent ==
    /\ \A r, q \in Reqs :
          (Succeeded(r) /\ Succeeded(q) /\ cb[r].args.email = cb[q].args.email)
              => cb[r].user.id = cb[q].user.id
    /\ \A u, v \in users : u.email = v.email => u = v

C5_Witness ==
    \E r, q \in Reqs :
        /\ r # q /\ Succeeded(r) /\ Succeeded(q)
        /\ ~cb[r].missed /\ cb[r].args.email = cb[q].args.email /\ r \notin writers

\* C10: a callback that failed before the upsert inserted no row, holds no user and
\* issued no token; the upsert is reached only with an access token and a fetched
\* profile; a token is issued only for a row the upsert returned.
C10_FailureBeforeUpsertHasNoEffect ==
    \A r \in Reqs :
        /\ (Failed(r) /\ cb[r].at \in {"exchange", "profile"}) =>
              /\ r \notin writers /\ cb[r].user = NoRow /\ cb[r].args = NoArgs
              /\ ~IsAuthenticated(cb[r].resp)
        /\ (cb[r].pc \in {"find", "create"} \/ r \in writers) =>
              /\ Truthy(cb[r].access_token)
              /\ "email" \in DOMAIN cb[r].user_info
        /\ IsAuthenticated(cb[r].resp) => cb[r].user \in users

C10_Witness ==
    \E r, q \in Reqs :
        /\ Failed(r) /\ cb[r].at = "profile" /\ cb[r].exc = KeyErrorEmail
        /\ Succeeded(q) /\ q \in writers

\* ------------------------------------------------- properties of /auth/me
Answered == me.status # 0
HasAuth(h) == "Authorization" \in DOMAIN h
\* the header is "Bearer " followed by exactly one token
IsBearerJwt(h) ==
    /\ HasAuth(h) /\ Len(h["Authorization"]) = 3
    /\ SubSeq(h["Authorization"], 1, 2) = BearerPrefix
    /\ h["Authorization"][3].kind = "jwt"
ValidAt(tok, t) == tok.key = JWT_SECRET /\ t < tok.exp
\* no header, no 'Bearer ' prefix, or nothing between the prefix and the next space
Malformed(h) ==
    \/ ~HasAuth(h)
    \/ Len(h["Authorization"]) < 2
    \/ SubSeq(h["Authorization"], 1, 2) # BearerPrefix
    \/ Len(h["Authorization"]) = 2
    \/ h["Authorization"][3] = Sp

\* C6: a request without an Authorization header, or with a malformed one, gets 401
\* and no user is looked up.
C6_MalformedHeaderIs401 ==
    (Answered /\ Malformed(me.headers)) => (me.status = 401 /\ ~me.looked_up)

C6_Witness ==
    /\ Answered /\ HasAuth(me.headers) /\ Len(me.headers["Authorization"]) = 3
    /\ me.headers["Authorization"][1] = Lit("Basic")
    /\ me.headers["Authorization"][3] \in IssuedTokens
    /\ ValidAt(me.headers["Authorization"][3], me.at)
    /\ me.status = 401

\* C7: a well-formed bearer token that is expired or signed with another key gets
\* 401; its verification yields no subject and no user data is returned.
C7_ExpiredOrForgedIs401 ==
    (Answered /\ IsBearerJwt(me.headers) /\ ~ValidAt(me.headers["Authorization"][3], me.at))
        => /\ me.status = 401 /\ me.sub = None
           /\ ~me.looked_up /\ me.body = NoBody

C7_Witness ==
    /\ Answered /\ IsBearerJwt(me.headers)
    /\ me.headers["Authorization"][3] \in IssuedTokens
    /\ me.headers["Authorization"][3].exp <= me.at
    /\ me.status = 401

\* C8: a valid token whose subject matches no row gets 404; when a row matches, the
\* answer is 200 with the public fields of the user whose id is the subject.
C8_LookupBySubject ==
    [][ (me' # me /\ IsBearerJwt(me'.headers)
            /\ ValidAt(me'.headers["Authorization"][3], now))
        => LET S == me'.headers["Authorization"][3].sub
               rows == { u \in users : StrId(u.id) = S } IN
           IF rows = {}
           THEN me'.status = 404 /\ me'.body = NoBody
           ELSE /\ me'.status = 200
                /\ \E u \in rows :
                     me'.body = [id |-> S, email |-> u.email, name |-> u.name,
                                 picture |-> u.picture, provider |-> u.provider,
                                 created_at |-> u.created_at] ]_vars

C8_Witness ==
    /\ me.status = 404 /\ IsBearerJwt(me.headers) /\ users # {}

====
